---- MODULE Spec2Model ----
(***************************************************************************)
(* A model of vttkana (src/main.py): vocabulary aggregation over WebVTT    *)
(* captions, the JSON and CSV vocabulary stores, the conversion driver and *)
(* the find-examples query path.                                           *)
(*                                                                         *)
(* Conventions.  A Python str that the program inspects character by       *)
(* character (a part-of-speech tag, a file name, a number literal) is a    *)
(* sequence of one-character symbols; a Japanese character is written by   *)
(* its reading ("jo","shi" for the two characters of the particle tag).    *)
(* A dictionary form, which the program only compares for equality, is a   *)
(* TLA+ string.  A caption time (a float number of seconds) is a natural   *)
(* number t standing for the float t.0.  A Python dict is a record         *)
(* [keys, val]: the keys in insertion order and the mapping.               *)
(***************************************************************************)
EXTENDS Integers, Sequences, FiniteSets, TLC

\* ------------------------------------------------------------------ bounds
MaxCaptions == 2     \* captions of the track analyze_subtitles iterates
MaxMorphemes == 2    \* morphemes the analyzer returns for one caption
MaxTick == 2         \* number of distinct caption start times

Times == {8 + k : k \in 1..MaxTick}

\* ----------------------------------------------------------- Python values
None == <<"<None>">>

PyInt(n) == [kind |-> "int", num |-> n, text |-> <<>>]
PyStr(t) == [kind |-> "str", num |-> 0, text |-> t]

PySet(S) == [kind |-> "set", elems |-> S, items |-> <<>>, keys |-> <<>>, val |-> <<>>]
PyList(s) == [kind |-> "list", elems |-> {}, items |-> s, keys |-> <<>>, val |-> <<>>]
PyDict(k, v) == [kind |-> "dict", elems |-> {}, items |-> <<>>, keys |-> k, val |-> v]

EmptyDict == [keys |-> <<>>, val |-> <<>>]

Range(s) == {s[i] : i \in 1..Len(s)}

\* d[key] = value on a dict: a new key is appended, an old one keeps its place
DictSet(d, key, value) ==
    [keys |-> IF key \in Range(d.keys) THEN d.keys ELSE Append(d.keys, key),
     val |-> [k \in Range(d.keys) \cup {key} |-> IF k = key THEN value ELSE d.val[k]]]

\* ------------------------------------------------------------ Lexical filter
POS_FILTER ==
    << <<"jo", "shi">>,
       <<"fuku", "shi", ",", "jo", "shi", "rui", "setsu", "zoku">>,
       <<"jo", "dou", "shi">>,
       <<"mei", "shi", ",", "hi", "ji", "ritsu", ",", "jo", "dou", "shi", "go", "kan">>,
       <<"ki", "gou">>,
       <<"setsu", "tou", "shi">>,
       <<"mei", "shi", ",", "setsu", "bi">>,
       <<"dou", "shi", ",", "setsu", "bi">>,
       <<"kei", "you", "shi", ",", "setsu", "bi">>,
       <<"setsu", "bi">>,
       <<"mei", "shi", ",", "suu">>,
       <<"suu">>,
       <<"fu", "i", "ra", "-">> >>

\* str.startswith
startswith(s, prefix) ==
    /\ Len(prefix) <= Len(s)
    /\ \A i \in 1..Len(prefix) : s[i] = prefix[i]

filter_node_exact(node) ==
    \E i \in 1..Len(POS_FILTER) : node.part_of_speech = POS_FILTER[i]

filter_node(node) ==
    \E i \in 1..Len(POS_FILTER) : startswith(node.part_of_speech, POS_FILTER[i])

\* ----------------------------------------------------- analyzer output pool
\* janome's extra tuple: (part_of_speech, infl_type, infl_form, base_form,
\* reading, phonetic); Python's extra[3] is the 4th element.
Extra(pos, base) == <<pos, "*", "*", base, "*", "*">>

Node(surface, has_base, base, pos) ==
    [surface |-> surface, has_base_form |-> has_base, base_form |-> base,
     part_of_speech |-> pos]

TokNoun == [extra |-> None,
            node |-> Node("s1", TRUE, "W1", <<"mei", "shi", ",", "ip", "pan">>)]
TokSuffix == [extra |-> None,
              node |-> Node("s2", TRUE, "W1",
                            <<"mei", "shi", ",", "setsu", "bi", ",", "ip", "pan">>)]
TokParticleExtra == [extra |-> Extra(<<"jo", "shi", ",", "kaku", "jo", "shi">>, "W2"),
                     node |-> Node("s3", TRUE, "W2",
                                   <<"jo", "shi", ",", "kaku", "jo", "shi">>)]
TokNoBase == [extra |-> None,
              node |-> Node("s4", FALSE, "", <<"ki", "gou">>)]

Tokens == {TokNoun, TokSuffix, TokParticleExtra, TokNoBase}

Caption(start, end, analyzed) ==
    [start_in_seconds |-> start, end_in_seconds |-> end, analyzed |-> analyzed]

\* ------------------------------------------------------ Vocabulary Aggregator
\* lines 108-116: does the morpheme reach line 117
retained(a) ==
    IF a.extra # None THEN TRUE
    ELSE IF a.node.has_base_form THEN ~filter_node(a.node)
    ELSE FALSE

\* lines 109 and 113
dict_form(a) == IF a.extra # None THEN a.extra[4] ELSE a.node.base_form

add_occurence_overwrite(vocabulary, form, start) ==
    DictSet(vocabulary, form, [frequency |-> PyInt(1), occurences |-> PySet({start})])

\* lines 117-120
add_occurence(vocabulary, form, start) ==
    LET v0 == IF form \in Range(vocabulary.keys) THEN vocabulary
              ELSE DictSet(vocabulary, form,
                           [frequency |-> PyInt(0), occurences |-> PySet({})])
        e == v0.val[form]
    IN DictSet(v0, form,
               [frequency |-> PyInt(e.frequency.num + 1),
                occurences |-> PySet(e.occurences.elems \cup {start})])

\* one iteration of the inner loop, lines 107-120
process_token(vocabulary, a, start) ==
    IF retained(a) THEN add_occurence(vocabulary, dict_form(a), start) ELSE vocabulary

\* the (caption start, token) pairs of a track in processing order
RECURSIVE Flatten(_)
Flatten(subs) ==
    IF subs = <<>> THEN <<>>
    ELSE [i \in 1..Len(Head(subs).analyzed) |->
            [start |-> Head(subs).start_in_seconds, a |-> Head(subs).analyzed[i]]]
         \o Flatten(Tail(subs))

RECURSIVE Fold(_, _)
Fold(vocabulary, work) ==
    IF work = <<>> THEN vocabulary
    ELSE Fold(process_token(vocabulary, Head(work).a, Head(work).start), Tail(work))

\* analyze_subtitles as a function of the track, lines 102-122
analyze_subtitles(subs) == Fold(EmptyDict, Flatten(subs))

\* ------------------------------------------------------------ number text
DigitChar == <<"0", "1", "2", "3", "4", "5", "6", "7", "8", "9">>

CharCode(c) == CHOOSE i \in 1..10 : DigitChar[i] = c

\* str(n) for a non-negative int
RECURSIVE ToDigits(_)
ToDigits(n) ==
    IF n < 10 THEN <<DigitChar[n + 1]>>
    ELSE Append(ToDigits(n \div 10), DigitChar[(n % 10) + 1])

\* the int a digit string denotes
RECURSIVE FromDigits(_)
FromDigits(text) ==
    IF Len(text) = 0 THEN 0
    ELSE 10 * FromDigits(SubSeq(text, 1, Len(text) - 1)) + (CharCode(text[Len(text)]) - 1)

\* repr of the float t.0
FloatRepr(t) == ToDigits(t) \o <<".", "0">>

IsFloatText(text) == \E i \in 1..Len(text) : text[i] = "."

\* the float a literal d...d.0 denotes
FloatValue(text) ==
    LET dot == CHOOSE i \in 1..Len(text) : text[i] = "."
    IN FromDigits(SubSeq(text, 1, dot - 1))

\* str < str on digit strings (code point order, a proper prefix is smaller)
StrLess(s, t) ==
    \/ /\ Len(s) < Len(t)
       /\ \A i \in 1..Len(s) : s[i] = t[i]
    \/ \E i \in 1..Len(s) :
          /\ i <= Len(t)
          /\ \A j \in 1..(i - 1) : s[j] = t[j]
          /\ CharCode(s[i]) < CharCode(t[i])

\* a < b as sorted() compares two frequency keys of the same type
PyLess(a, b) ==
    IF a.kind = "int" /\ b.kind = "int" THEN a.num < b.num
    ELSE StrLess(a.text, b.text)

\* -------------------------------------------------------------- JSON values
JNum(text) == [j |-> "num", text |-> text, items |-> <<>>, keys |-> <<>>, val |-> <<>>]
JArr(items) == [j |-> "arr", text |-> <<>>, items |-> items, keys |-> <<>>, val |-> <<>>]
JObj(keys, val) == [j |-> "obj", text |-> <<>>, items |-> <<>>, keys |-> keys, val |-> val]
JTypeError == [j |-> "TypeError", text |-> <<>>, items |-> <<>>, keys |-> <<>>, val |-> <<>>]

\* json.dumps of a list of floats
dumps_list(items) == JArr([i \in 1..Len(items) |-> JNum(FloatRepr(items[i]))])

\* json.dumps of an occurences value (a set is not serializable)
dumps_occurences(occ) ==
    IF occ.kind = "list" THEN dumps_list(occ.items)
    ELSE IF occ.kind = "dict"
    THEN IF \E k \in Range(occ.keys) : occ.val[k].kind # "list" THEN JTypeError
         ELSE JObj(occ.keys, [k \in Range(occ.keys) |-> dumps_list(occ.val[k].items)])
    ELSE JTypeError

\* json.dumps of a frequency: an int prints its digits, a str is a JSON string
dumps_frequency(f) ==
    IF f.kind = "int" THEN JNum(ToDigits(f.num))
    ELSE [j |-> "str", text |-> f.text, items |-> <<>>, keys |-> <<>>, val |-> <<>>]

loads_list(js) ==
    PyList([i \in 1..Len(js.items) |-> FloatValue(js.items[i].text)])

\* json.loads of an occurences text
loads_occurences(js) ==
    IF js.j = "arr" THEN loads_list(js)
    ELSE PyDict(js.keys, [k \in Range(js.keys) |-> loads_list(js.val[k])])

\* json.loads of a frequency
loads_frequency(js) ==
    IF js.j = "num" /\ ~IsFloatText(js.text) THEN PyInt(FromDigits(js.text))
    ELSE PyStr(js.text)

\* ---------------------------------------------------------- Vocabulary Store
\* list(s): the elements of s in the iteration order ord
SetToList(S, ord) == SelectSeq(ord, LAMBDA t : t \in S)

\* the iteration orders a set of times may have
Orders == {s \in [1..Cardinality(Times) -> Times] : Range(s) = Times}

list_of_truncated(occ, ord) ==
    IF occ.kind = "set"
    THEN PyList(IF occ.elems = {} THEN <<>> ELSE <<SetToList(occ.elems, ord)[1]>>)
    ELSE PyList(occ.items)

\* list(occurences), lines 53 and 56
list_of(occ, ord) ==
    IF occ.kind = "set" THEN PyList(SetToList(occ.elems, ord)) ELSE PyList(occ.items)

\* lines 51-56 from the i-th entry on; a flat list has no .items() (line 55)
RECURSIVE jsonify_from(_, _, _)
jsonify_from(vocabulary, i, ord) ==
    IF i > Len(vocabulary.keys) THEN [raised |-> "none", vocabulary |-> vocabulary]
    ELSE LET key == vocabulary.keys[i]
             value == vocabulary.val[key]
             occ == value.occurences
         IN IF occ.kind = "set"
            THEN jsonify_from(
                    DictSet(vocabulary, key,
                            [value EXCEPT !.occurences = list_of(occ, ord)]),
                    i + 1, ord)
            ELSE IF occ.kind = "list"
            THEN [raised |-> "AttributeError", vocabulary |-> vocabulary]
            ELSE jsonify_from(
                    DictSet(vocabulary, key,
                            [value EXCEPT !.occurences =
                                PyDict(occ.keys,
                                       [k \in Range(occ.keys) |-> list_of(occ.val[k], ord)])]),
                    i + 1, ord)

\* jsonify_vocabulary, lines 50-56
jsonify_vocabulary(vocabulary, ord) == jsonify_from(vocabulary, 1, ord)

EmptyFile == [type |-> "none", doc |-> <<>>, rows |-> <<>>]

\* json.dump of the whole vocabulary, line 86
dump_vocabulary(vocabulary) ==
    JObj(vocabulary.keys,
         [k \in Range(vocabulary.keys) |->
            [frequency |-> dumps_frequency(vocabulary.val[k].frequency),
             occurences |-> dumps_occurences(vocabulary.val[k].occurences)]])

\* save_vocabulary_json, lines 83-86: the file is opened (truncated) first
save_vocabulary_json(vocabulary, ord) ==
    LET r == jsonify_vocabulary(vocabulary, ord)
    IN IF r.raised # "none"
       THEN [raised |-> r.raised, vocabulary |-> r.vocabulary,
             file |-> [type |-> "json", doc |-> <<>>, rows |-> <<>>]]
       ELSE [raised |-> "none", vocabulary |-> r.vocabulary,
             file |-> [type |-> "json", doc |-> dump_vocabulary(r.vocabulary),
                       rows |-> <<>>]]

\* load_vocabulary_json, lines 89-91
load_vocabulary_json(f) ==
    [keys |-> f.doc.keys,
     val |-> [k \in Range(f.doc.keys) |->
                [frequency |-> loads_frequency(f.doc.val[k].frequency),
                 occurences |-> loads_occurences(f.doc.val[k].occurences)]]]

\* a frequency as csv.writer prints it: str(int), or the str itself
csv_field(f) == IF f.kind = "int" THEN ToDigits(f.num) ELSE f.text

\* line 64: the tuples (key, frequency, json.dumps(occurences)) in dict order
csv_tuples(vocabulary) ==
    [i \in 1..Len(vocabulary.keys) |->
        [key |-> vocabulary.keys[i],
         frequency |-> vocabulary.val[vocabulary.keys[i]].frequency,
         occurences |-> dumps_occurences(vocabulary.val[vocabulary.keys[i]].occurences)]]

\* stable insertion for sorted(..., key=item[1], reverse=True): x was before
\* every element of s, so it stays before those with an equal key
RECURSIVE insert_desc(_, _)
insert_desc(x, s) ==
    IF s = <<>> THEN <<x>>
    ELSE IF PyLess(x.frequency, Head(s).frequency)
    THEN <<Head(s)>> \o insert_desc(x, Tail(s))
    ELSE <<x>> \o s

\* lines 63-66
RECURSIVE sorted_desc(_)
sorted_desc(rows) ==
    IF rows = <<>> THEN <<>> ELSE insert_desc(Head(rows), sorted_desc(Tail(rows)))

\* save_vocabulary_csv, lines 58-67: the file is opened (truncated) first
save_vocabulary_csv(vocabulary, ord) ==
    LET r == jsonify_vocabulary(vocabulary, ord)
        sorted == sorted_desc(csv_tuples(r.vocabulary))
    IN IF r.raised # "none"
       THEN [raised |-> r.raised, vocabulary |-> r.vocabulary,
             file |-> [type |-> "csv", doc |-> <<>>, rows |-> <<>>]]
       ELSE [raised |-> "none", vocabulary |-> r.vocabulary,
             file |-> [type |-> "csv", doc |-> <<>>,
                       rows |-> [i \in 1..Len(sorted) |->
                                    [key |-> sorted[i].key,
                                     frequency |-> csv_field(sorted[i].frequency),
                                     occurences |-> sorted[i].occurences]]]]

\* lines 74-78 from the i-th row on
RECURSIVE load_rows(_, _, _)
load_rows(rows, i, vocabulary) ==
    IF i > Len(rows) THEN vocabulary
    ELSE load_rows(rows, i + 1,
                   DictSet(vocabulary, rows[i].key,
                           [frequency |-> PyStr(rows[i].frequency),
                            occurences |-> loads_occurences(rows[i].occurences)]))

\* load_vocabulary_csv, lines 70-80
load_vocabulary_csv(f) == load_rows(f.rows, 1, EmptyDict)

\* ---------------------------------------------------------- Conversion Driver
\* truth value of an Optional[str]
truthy(x) == x # None /\ x # <<>>

output_directory_required_no_single(args) ==
    /\ args.add_furigana \/ args.extract_vocabulary
    /\ ~truthy(args.output_directory)

\* the condition of line 146
output_directory_required(args) ==
    /\ \/ args.add_furigana
       \/ args.extract_vocabulary /\ ~truthy(args.single_vocabulary_file)
    /\ ~truthy(args.output_directory)

\* str.lower on the characters file names use
lower_char(c) ==
    CASE c = "V" -> "v"
      [] c = "T" -> "t"
      [] c = "A" -> "a"
      [] OTHER -> c

lower(s) == [i \in 1..Len(s) |-> lower_char(s[i])]

endswith(s, suffix) ==
    /\ Len(suffix) <= Len(s)
    /\ SubSeq(s, Len(s) - Len(suffix) + 1, Len(s)) = suffix

VttExtension == <<".", "v", "t", "t">>

\* os.path.splitext(filename)[0]: up to the last dot that follows a non-dot
splitext_root(filename) ==
    LET dots == {i \in 1..Len(filename) :
                    /\ filename[i] = "."
                    /\ \E j \in 1..(i - 1) : filename[j] # "."}
    IN IF dots = {} THEN filename
       ELSE SubSeq(filename, 1, (CHOOSE i \in dots : \A j \in dots : j <= i) - 1)

\* os.path.join(directory, name) for a relative name
path_join(directory, name) ==
    IF directory = <<>> THEN name
    ELSE IF directory[Len(directory)] = "/" THEN directory \o name
    ELSE directory \o <<"/">> \o name

\* lines 188-193 from the i-th key of the file's vocabulary on
RECURSIVE merge_from(_, _, _, _)
merge_from(common, voc, i, base_name) ==
    IF i > Len(voc.keys) THEN common
    ELSE LET key == voc.keys[i]
             value == voc.val[key]
             c0 == IF key \in Range(common.keys) THEN common
                   ELSE DictSet(common, key,
                                [frequency |-> PyInt(0),
                                 occurences |-> PyDict(<<>>, <<>>)])
             e == c0.val[key]
             grown == DictSet([keys |-> e.occurences.keys, val |-> e.occurences.val],
                              base_name, value.occurences)
         IN merge_from(
                DictSet(c0, key,
                        [frequency |-> PyInt(e.frequency.num + value.frequency.num),
                         occurences |-> PyDict(grown.keys, grown.val)]),
                voc, i + 1, base_name)

\* the else branch of line 187
merge_vocabulary(common, voc, base_name) == merge_from(common, voc, 1, base_name)

\* ------------------------------------------------------------- input pools
MaxFrequency == 10   \* largest frequency of an entry handed to the store
MaxFiles == 2        \* entries of the input directory

\* one-form vocabularies analyze_subtitles can return: frequency >= number of
\* distinct start times >= 1
FlatEntries(maxf) ==
    {[frequency |-> PyInt(f), occurences |-> PySet(S)] :
        <<f, S>> \in {x \in (1..maxf) \X (SUBSET Times) :
                        x[2] # {} /\ Cardinality(x[2]) <= x[1]}}

\* vocabularies over the forms W1, W2 that analyze_subtitles can return
FlatVocabularies(maxf) ==
    {EmptyDict}
    \cup {DictSet(EmptyDict, w, e) : w \in {"W1", "W2"}, e \in FlatEntries(maxf)}
    \cup {DictSet(DictSet(EmptyDict, w[1], e1), w[2], e2) :
            w \in {<<"W1", "W2">>, <<"W2", "W1">>},
            e1 \in FlatEntries(maxf), e2 \in FlatEntries(maxf)}

NameA == <<"a">>
NameB == <<"b">>

\* combined vocabularies: a first file's vocabulary merged under "a", then an
\* optional second file holding W1 merged under "b"
GroupedVocabularies(maxf) ==
    {merge_vocabulary(merge_vocabulary(EmptyDict, v, NameA), w, NameB) :
        v \in FlatVocabularies(maxf),
        w \in {EmptyDict} \cup {DictSet(EmptyDict, "W1", e) : e \in FlatEntries(1)}}

\* subtitle files of the input directory
FileTracks ==
    { <<>>,
      <<Caption(9, 10, <<TokNoun>>)>>,
      <<Caption(9, 10, <<TokNoun, TokParticleExtra>>), Caption(10, 11, <<TokNoun>>)>>,
      <<Caption(10, 11, <<TokParticleExtra, TokSuffix>>)>> }

FileAVtt == <<"a", ".", "v", "t", "t">>
FileAVTT == <<"a", ".", "V", "T", "T">>
FileBVtt == <<"b", ".", "v", "t", "t">>
FileCTxt == <<"c", ".", "t", "x", "t">>
DirDVtt == <<"d", ".", "v", "t", "t">>

DirEntries ==
    {[name |-> n, isfile |-> TRUE, track |-> t] :
        n \in {FileAVtt, FileAVTT, FileBVtt}, t \in FileTracks}
    \cup {[name |-> FileCTxt, isfile |-> TRUE, track |-> <<>>],
          [name |-> DirDVtt, isfile |-> FALSE, track |-> <<>>]}

\* input directories: at most MaxFiles entries, no two with the same name
Directories ==
    {D \in SUBSET DirEntries :
        /\ Cardinality(D) <= MaxFiles
        /\ \A x \in D : \A y \in D : x.name = y.name => x = y}

OutDir == <<"o", "u", "t">>
SingleFile == <<"a", "l", "l">>

ConvertArgs ==
    [output_directory : {None, <<>>, OutDir},
     add_furigana : BOOLEAN,
     extract_vocabulary : BOOLEAN,
     single_vocabulary_file : {None, <<>>, SingleFile},
     vocabulary_type : {"json", "csv"}]

NoArgs == [none |-> TRUE]

\* ---------------------------------------------------------------- variables
VARIABLES
    pc,                 \* where the running operation stands
    caption_idx,        \* analyze_subtitles: captions taken from the track so far
    token_idx,          \* analyze_subtitles: morphemes taken from the current caption
    start,              \* analyze_subtitles: caption.start_in_seconds
    a,                  \* analyze_subtitles: the morpheme of the current iteration
    vocabulary,         \* the in-memory vocabulary
    aggregated,         \* the vocabulary as aggregation produced it (before any save)
    seen,               \* history: the (dictionary form, start) pairs that reached line 117
    n_retained,         \* history: how many morphemes reached line 117
    file,               \* the vocabulary file on disk
    loaded,             \* the vocabulary a load returned
    args,               \* the arguments of convert or find_examples
    directory,          \* convert: the entries of input_directory
    listing,            \* convert: the file names os.listdir returned, not yet visited
    common_vocabulary,  \* convert: the combined vocabulary
    out_exists,         \* convert: whether output_directory exists on disk
    fs_log,             \* the filesystem calls made so far
    raised,             \* the exception that escaped, or "none"
    processed,          \* history: per analysed file, its name and its own vocabulary
    written_mode,       \* history: how the vocabulary file was written
    jobs,               \* find_examples: (file_path, timestamps) still to render
    timestamps,         \* print_occurences_for_file_path: the timestamps list
    current_timestamp,  \* print_occurences_for_file_path: the cursor (0-based)
    track,              \* print_occurences_for_file_path: caption end times of the file
    scan_idx,           \* print_occurences_for_file_path: captions examined so far
    printed,            \* the lines printed for the current file
    rendered,           \* the file paths printed (line 209)
    outcome             \* find_examples: "none", "not found" or "rendered"

aggVars == <<caption_idx, token_idx, start, a, seen, n_retained>>
storeVars == <<vocabulary, aggregated, file, loaded>>
convVars == <<directory, listing, common_vocabulary, out_exists, processed>>
queryVars == <<written_mode, jobs, timestamps, current_timestamp, track, scan_idx,
               printed, rendered, outcome>>
vars == <<pc, aggVars, storeVars, args, convVars, fs_log, raised, queryVars>>

InitAgg ==
    /\ caption_idx = 0
    /\ token_idx = 0
    /\ start = 0
    /\ a = None
    /\ seen = {}
    /\ n_retained = 0

InitConv ==
    /\ directory = {}
    /\ listing = <<>>
    /\ common_vocabulary = EmptyDict
    /\ out_exists = FALSE
    /\ processed = <<>>

InitQuery ==
    /\ written_mode = "none"
    /\ jobs = <<>>
    /\ timestamps = <<>>
    /\ current_timestamp = 0
    /\ track = <<>>
    /\ scan_idx = 0
    /\ printed = <<>>
    /\ rendered = <<>>
    /\ outcome = "none"

\* ------------------------------------- analyze_subtitles, then the JSON store
Init ==
    /\ pc = "analyze"
    /\ InitAgg
    /\ InitConv
    /\ InitQuery
    /\ vocabulary = EmptyDict
    /\ aggregated = EmptyDict
    /\ file = EmptyFile
    /\ loaded = EmptyDict
    /\ args = NoArgs
    /\ fs_log = <<>>
    /\ raised = "none"

\* the track yields its next caption, lines 105-106; start times never decrease
AnalyzeNextCaption ==
    /\ pc = "analyze"
    /\ caption_idx < MaxCaptions
    /\ \E t \in Times :
          /\ t >= start
          /\ start' = t
    /\ caption_idx' = caption_idx + 1
    /\ token_idx' = 0
    /\ UNCHANGED <<pc, a, seen, n_retained, storeVars, args, convVars, fs_log, raised,
                   queryVars>>

\* one morpheme of the current caption, lines 107-120
AnalyzeToken ==
    /\ pc = "analyze"
    /\ caption_idx >= 1
    /\ token_idx < MaxMorphemes
    /\ \E tok \in Tokens :
          /\ a' = tok
          /\ vocabulary' = process_token(vocabulary, tok, start)
          /\ seen' = IF retained(tok) THEN seen \cup {<<dict_form(tok), start>>} ELSE seen
          /\ n_retained' = IF retained(tok) THEN n_retained + 1 ELSE n_retained
    /\ token_idx' = token_idx + 1
    /\ UNCHANGED <<pc, caption_idx, start, aggregated, file, loaded, args, convVars,
                   fs_log, raised, queryVars>>

\* the track is exhausted: return vocabulary, line 122
AnalyzeReturn ==
    /\ pc = "analyze"
    /\ aggregated' = vocabulary
    /\ pc' = "analyzed"
    /\ UNCHANGED <<aggVars, vocabulary, file, loaded, args, convVars, fs_log, raised,
                   queryVars>>

\* save_vocabulary_json(vocabulary, ...), line 186
SaveJson ==
    /\ pc = "analyzed"
    /\ \E ord \in Orders :
          LET r == save_vocabulary_json(vocabulary, ord)
          IN /\ vocabulary' = r.vocabulary
             /\ file' = r.file
             /\ raised' = r.raised
             /\ pc' = IF r.raised = "none" THEN "saved" ELSE "raised"
    /\ UNCHANGED <<aggVars, aggregated, loaded, args, convVars, fs_log, queryVars>>

\* load_vocabulary_json(vocabulary_file), line 235
LoadJson ==
    /\ pc = "saved"
    /\ file.type = "json"
    /\ loaded' = load_vocabulary_json(file)
    /\ pc' = "loaded"
    /\ UNCHANGED <<aggVars, vocabulary, aggregated, file, args, convVars, fs_log, raised,
                   queryVars>>

Next ==
    \/ AnalyzeNextCaption
    \/ AnalyzeToken
    \/ AnalyzeReturn
    \/ SaveJson
    \/ LoadJson

Spec == Init /\ [][Next]_vars

\* -------------------------------- the CSV store: save, load, save what was loaded
InitStore ==
    /\ pc = "given"
    /\ InitAgg
    /\ InitConv
    /\ InitQuery
    /\ vocabulary \in FlatVocabularies(MaxFrequency) \cup GroupedVocabularies(MaxFrequency)
    /\ aggregated = vocabulary
    /\ file = EmptyFile
    /\ loaded = EmptyDict
    /\ args = NoArgs
    /\ fs_log = <<>>
    /\ raised = "none"

\* save_vocabulary_csv(vocabulary, ...), lines 184 and 201
SaveCsv ==
    /\ pc = "given"
    /\ \E ord \in Orders :
          LET r == save_vocabulary_csv(vocabulary, ord)
          IN /\ vocabulary' = r.vocabulary
             /\ file' = r.file
             /\ raised' = r.raised
             /\ pc' = IF r.raised = "none" THEN "csv_saved" ELSE "raised"
    /\ UNCHANGED <<aggVars, aggregated, loaded, args, convVars, fs_log, queryVars>>

\* load_vocabulary_csv(vocabulary_file), line 233
LoadCsv ==
    /\ pc = "csv_saved"
    /\ loaded' = load_vocabulary_csv(file)
    /\ pc' = "csv_loaded"
    /\ UNCHANGED <<aggVars, vocabulary, aggregated, file, args, convVars, fs_log, raised,
                   queryVars>>

\* save_vocabulary_csv applied to the vocabulary load_vocabulary_csv returned
ResaveCsv ==
    /\ pc = "csv_loaded"
    /\ \E ord \in Orders :
          LET r == save_vocabulary_csv(loaded, ord)
          IN /\ loaded' = r.vocabulary
             /\ file' = r.file
             /\ raised' = r.raised
             /\ pc' = "csv_resaved"
    /\ UNCHANGED <<aggVars, vocabulary, aggregated, args, convVars, fs_log, queryVars>>

NextStore ==
    \/ SaveCsv
    \/ LoadCsv
    \/ ResaveCsv

SpecStore == InitStore /\ [][NextStore]_vars

\* ------------------------------------------------------------------ convert
InitConvert ==
    /\ pc = "convert"
    /\ InitAgg
    /\ InitQuery
    /\ args \in ConvertArgs
    /\ directory \in Directories
    /\ out_exists \in BOOLEAN
    /\ listing = <<>>
    /\ common_vocabulary = EmptyDict
    /\ processed = <<>>
    /\ vocabulary = EmptyDict
    /\ aggregated = EmptyDict
    /\ file = EmptyFile
    /\ loaded = EmptyDict
    /\ fs_log = <<>>
    /\ raised = "none"

\* lines 146-147: the configuration error
ConvertConfigError ==
    /\ pc = "convert"
    /\ output_directory_required(args)
    /\ raised' = "Output directory required"
    /\ pc' = "raised"
    /\ UNCHANGED <<aggVars, storeVars, args, convVars, fs_log, queryVars>>

\* lines 149-167: the analyzer is built, the output directory is made if absent;
\* os.mkdir('') raises FileNotFoundError
ConvertSetup ==
    /\ pc = "convert"
    /\ ~output_directory_required(args)
    /\ IF args.output_directory = None
       THEN /\ pc' = "listdir"
            /\ UNCHANGED <<fs_log, out_exists, raised>>
       ELSE IF args.output_directory # <<>> /\ out_exists
       THEN /\ pc' = "listdir"
            /\ fs_log' = Append(fs_log, <<"exists", args.output_directory>>)
            /\ UNCHANGED <<out_exists, raised>>
       ELSE IF args.output_directory = <<>>
       THEN /\ pc' = "raised"
            /\ raised' = "FileNotFoundError"
            /\ fs_log' = fs_log \o << <<"exists", args.output_directory>>,
                                      <<"mkdir", args.output_directory>> >>
            /\ UNCHANGED out_exists
       ELSE /\ pc' = "listdir"
            /\ out_exists' = TRUE
            /\ fs_log' = fs_log \o << <<"exists", args.output_directory>>,
                                      <<"mkdir", args.output_directory>> >>
            /\ UNCHANGED raised
    /\ UNCHANGED <<aggVars, storeVars, args, directory, listing, common_vocabulary,
                   processed, queryVars>>

\* os.listdir(input_directory), line 169: the names in an arbitrary order
ConvertListdir ==
    /\ pc = "listdir"
    /\ \E order \in [1..Cardinality(directory) -> {e.name : e \in directory}] :
          /\ Range(order) = {e.name : e \in directory}
          /\ listing' = order
    /\ fs_log' = Append(fs_log, <<"listdir", <<"i", "n">>>>)
    /\ pc' = "loop"
    /\ UNCHANGED <<aggVars, storeVars, args, directory, common_vocabulary, out_exists,
                   processed, raised, queryVars>>

DirEntry(filename) == CHOOSE e \in directory : e.name = filename

\* the negation of line 171
is_subtitle_file(filename) ==
    DirEntry(filename).isfile /\ endswith(lower(filename), VttExtension)

\* lines 170-172: not a regular file, or not named *.vtt
ConvertSkip ==
    /\ pc = "loop"
    /\ listing # <<>>
    /\ ~is_subtitle_file(Head(listing))
    /\ listing' = Tail(listing)
    /\ fs_log' = Append(fs_log, <<"isfile", Head(listing)>>)
    /\ UNCHANGED <<pc, aggVars, storeVars, args, directory, common_vocabulary,
                   out_exists, processed, raised, queryVars>>

vocabulary_path(output_directory, base_name, type) ==
    path_join(output_directory,
              base_name \o (IF type = "csv" THEN <<".", "c", "s", "v">>
                            ELSE <<".", "j", "s", "o", "n">>))

save_vocabulary(voc, type, ord) ==
    IF type = "csv" THEN save_vocabulary_csv(voc, ord) ELSE save_vocabulary_json(voc, ord)

\* the filesystem calls of one iteration, lines 170-197
file_calls(filename) ==
    << <<"isfile", filename>>, <<"read", filename>> >>
    \o (IF args.extract_vocabulary /\ ~truthy(args.single_vocabulary_file)
        THEN << <<"write", vocabulary_path(args.output_directory,
                                           splitext_root(filename),
                                           args.vocabulary_type)>> >>
        ELSE <<>>)
    \o (IF args.add_furigana
        THEN << <<"write", path_join(args.output_directory, filename)>> >>
        ELSE <<>>)

\* lines 174-197 for one subtitle file
ConvertFile ==
    /\ pc = "loop"
    /\ listing # <<>>
    /\ is_subtitle_file(Head(listing))
    /\ LET filename == Head(listing)
           own == analyze_subtitles(DirEntry(filename).track)
           base_name == splitext_root(filename)
       IN /\ IF ~args.extract_vocabulary
             THEN UNCHANGED <<vocabulary, aggregated, file, common_vocabulary, processed>>
             ELSE /\ aggregated' = own
                  /\ processed' = Append(processed, [name |-> filename, vocabulary |-> own])
                  /\ IF ~truthy(args.single_vocabulary_file)
                     THEN /\ \E ord \in Orders :
                                LET r == save_vocabulary(own, args.vocabulary_type, ord)
                                IN /\ vocabulary' = r.vocabulary
                                   /\ file' = r.file
                          /\ UNCHANGED common_vocabulary
                     ELSE /\ vocabulary' = own
                          /\ common_vocabulary' =
                                merge_vocabulary(common_vocabulary, own, base_name)
                          /\ UNCHANGED file
          /\ fs_log' = fs_log \o file_calls(filename)
    /\ listing' = Tail(listing)
    /\ UNCHANGED <<pc, aggVars, loaded, args, directory, out_exists, raised, queryVars>>

\* lines 199-203: the combined vocabulary is written
ConvertFinish ==
    /\ pc = "loop"
    /\ listing = <<>>
    /\ IF args.extract_vocabulary /\ truthy(args.single_vocabulary_file)
       THEN /\ \E ord \in Orders :
                  LET r == save_vocabulary(common_vocabulary, args.vocabulary_type, ord)
                  IN /\ common_vocabulary' = r.vocabulary
                     /\ file' = r.file
            /\ fs_log' = Append(fs_log, <<"write", args.single_vocabulary_file>>)
       ELSE UNCHANGED <<common_vocabulary, file, fs_log>>
    /\ pc' = "done"
    /\ UNCHANGED <<aggVars, vocabulary, aggregated, loaded, args, directory, listing,
                   out_exists, processed, raised, queryVars>>

NextConvert ==
    \/ ConvertConfigError
    \/ ConvertSetup
    \/ ConvertListdir
    \/ ConvertSkip
    \/ ConvertFile
    \/ ConvertFinish

SpecConvert == InitConvert /\ [][NextConvert]_vars

\* ------------------------------------------------------------ find_examples
MaxTrack == 3        \* captions in a subtitle file the query renders against

\* the end times a caption of a file webvtt.read returns may have
EndTimes == {8 + k : k \in 1..(MaxTick + 1)}

QueryFlat ==
    {EmptyDict}
    \cup {DictSet(EmptyDict, "W1",
                  [frequency |-> PyInt(Cardinality(S)), occurences |-> PySet(S)]) :
            S \in (SUBSET Times) \ {{}}}

QueryGrouped ==
    {merge_vocabulary(merge_vocabulary(EmptyDict, v, NameA), w, NameB) :
        v \in QueryFlat,
        w \in {EmptyDict,
               DictSet(EmptyDict, "W1",
                       [frequency |-> PyInt(Cardinality(Times)),
                        occurences |-> PySet(Times)])}}

VocabularyJson == <<"v", ".", "j", "s", "o", "n">>
VocabularyCsv == <<"v", ".", "c", "s", "v">>
SubtitlesDir == <<"d">>

FindArgs(type) ==
    [query : {"W1", "W3"},
     vocabulary_file : {IF type = "csv" THEN VocabularyCsv ELSE VocabularyJson},
     subtitles_directory : {None, <<>>, SubtitlesDir},
     subtitles_file : {None, <<>>, FileAVtt}]

InitFind ==
    /\ pc = "find"
    /\ InitAgg
    /\ InitConv
    /\ written_mode \in {"per-file", "combined"}
    /\ vocabulary \in (IF written_mode = "per-file" THEN QueryFlat ELSE QueryGrouped)
    /\ aggregated = vocabulary
    /\ \E type \in {"json", "csv"} :
          /\ args \in FindArgs(type)
          /\ \E ord \in Orders : file = save_vocabulary(vocabulary, type, ord).file
    /\ loaded = EmptyDict
    /\ fs_log = <<>>
    /\ raised = "none"
    /\ jobs = <<>>
    /\ timestamps = <<>>
    /\ current_timestamp = 0
    /\ track = <<>>
    /\ scan_idx = 0
    /\ printed = <<>>
    /\ rendered = <<>>
    /\ outcome = "none"

find_args_never_missing(fargs) == FALSE

\* the condition of line 229
find_args_missing(fargs) ==
    ~truthy(fargs.subtitles_directory) /\ ~truthy(fargs.subtitles_file)

\* lines 229-230
FindArgsError ==
    /\ pc = "find"
    /\ find_args_missing(args)
    /\ raised' = "Either the subtitles directory or subtitles file should be specified"
    /\ pc' = "raised"
    /\ UNCHANGED <<aggVars, storeVars, args, convVars, fs_log, queryVars>>

\* lines 232-235
load_vocabulary(vocabulary_file, f) ==
    IF endswith(vocabulary_file, <<".", "c", "s", "v">>)
    THEN load_vocabulary_csv(f) ELSE load_vocabulary_json(f)

FindLoad ==
    /\ pc = "find"
    /\ ~find_args_missing(args)
    /\ loaded' = load_vocabulary(args.vocabulary_file, file)
    /\ fs_log' = Append(fs_log, <<"read", args.vocabulary_file>>)
    /\ pc' = "lookup"
    /\ UNCHANGED <<aggVars, vocabulary, aggregated, file, args, convVars, raised,
                   queryVars>>

\* lines 237-239
FindNotFound ==
    /\ pc = "lookup"
    /\ args.query \notin Range(loaded.keys)
    /\ outcome' = "not found"
    /\ pc' = "done"
    /\ UNCHANGED <<aggVars, storeVars, args, convVars, fs_log, raised, written_mode,
                   jobs, timestamps, current_timestamp, track, scan_idx, printed,
                   rendered>>

\* isinstance(occurences, list), line 242
isinstance_list(occ) == occ.kind = "list"

\* lines 243-244
FindFlatError ==
    /\ pc = "lookup"
    /\ args.query \in Range(loaded.keys)
    /\ isinstance_list(loaded.val[args.query].occurences)
    /\ ~truthy(args.subtitles_file)
    /\ raised' = "vocabulary was generated for a single file which was not specified"
    /\ pc' = "raised"
    /\ UNCHANGED <<aggVars, storeVars, args, convVars, fs_log, queryVars>>

\* line 246
FindFlat ==
    /\ pc = "lookup"
    /\ args.query \in Range(loaded.keys)
    /\ isinstance_list(loaded.val[args.query].occurences)
    /\ truthy(args.subtitles_file)
    /\ jobs' = <<[file_path |-> args.subtitles_file,
                  timestamps |-> loaded.val[args.query].occurences.items]>>
    /\ pc' = "print"
    /\ UNCHANGED <<aggVars, storeVars, args, convVars, fs_log, raised, written_mode,
                   timestamps, current_timestamp, track, scan_idx, printed, rendered,
                   outcome>>

\* lines 248-249
FindGroupedError ==
    /\ pc = "lookup"
    /\ args.query \in Range(loaded.keys)
    /\ ~isinstance_list(loaded.val[args.query].occurences)
    /\ ~truthy(args.subtitles_directory)
    /\ raised' = "vocabulary was generated for a directory which was not specified"
    /\ pc' = "raised"
    /\ UNCHANGED <<aggVars, storeVars, args, convVars, fs_log, queryVars>>

occurrence_file_path_no_extension(subtitles_directory, filename) ==
    path_join(subtitles_directory, filename)

\* line 252
occurrence_file_path(subtitles_directory, filename) ==
    path_join(subtitles_directory, filename \o VttExtension)

\* lines 251-253: one call per item of the mapping, in dict order
FindGrouped ==
    /\ pc = "lookup"
    /\ args.query \in Range(loaded.keys)
    /\ ~isinstance_list(loaded.val[args.query].occurences)
    /\ truthy(args.subtitles_directory)
    /\ LET occ == loaded.val[args.query].occurences
       IN jobs' = [i \in 1..Len(occ.keys) |->
                     [file_path |-> occurrence_file_path(args.subtitles_directory,
                                                         occ.keys[i]),
                      timestamps |-> occ.val[occ.keys[i]].items]]
    /\ pc' = "print"
    /\ UNCHANGED <<aggVars, storeVars, args, convVars, fs_log, raised, written_mode,
                   timestamps, current_timestamp, track, scan_idx, printed, rendered,
                   outcome>>

RECURSIVE insert_asc(_, _)
insert_asc(x, s) ==
    IF s = <<>> THEN <<x>>
    ELSE IF Head(s) <= x THEN <<Head(s)>> \o insert_asc(x, Tail(s))
    ELSE <<x>> \o s

RECURSIVE sorted_asc(_)
sorted_asc(s) ==
    IF s = <<>> THEN <<>>
    ELSE insert_asc(s[Len(s)], sorted_asc(SubSeq(s, 1, Len(s) - 1)))

sort_timestamps_skipped(ts) == ts

\* timestamps.sort(), line 206
sort_timestamps(ts) == sorted_asc(ts)

\* lines 206-209: sort, read the subtitle file, print its path.  The captions
\* of the file are revealed one by one as the loop of line 210 takes them:
\* track holds those taken so far.
PrintStart ==
    /\ pc = "print"
    /\ jobs # <<>>
    /\ timestamps' = sort_timestamps(Head(jobs).timestamps)
    /\ track' = <<>>
    /\ fs_log' = Append(fs_log, <<"read", Head(jobs).file_path>>)
    /\ rendered' = Append(rendered, Head(jobs).file_path)
    /\ current_timestamp' = 0
    /\ scan_idx' = 0
    /\ printed' = <<>>
    /\ jobs' = Tail(jobs)
    /\ pc' = "scan"
    /\ UNCHANGED <<aggVars, storeVars, args, convVars, raised, written_mode, outcome>>

\* lines 211-212: the file has a next caption, but every timestamp was emitted
PrintBreak ==
    /\ pc = "scan"
    /\ Len(track) < MaxTrack
    /\ current_timestamp >= Len(timestamps)
    /\ pc' = "printed"
    /\ UNCHANGED <<aggVars, storeVars, args, convVars, fs_log, raised, queryVars>>

\* lines 213-214: the next caption ends at or before the current timestamp
PrintSkipCaption ==
    /\ pc = "scan"
    /\ Len(track) < MaxTrack
    /\ current_timestamp < Len(timestamps)
    /\ \E end_in_seconds \in EndTimes :
          /\ end_in_seconds <= timestamps[current_timestamp + 1]
          /\ track' = Append(track, end_in_seconds)
    /\ scan_idx' = scan_idx + 1
    /\ UNCHANGED <<pc, aggVars, storeVars, args, convVars, fs_log, raised, written_mode,
                   jobs, timestamps, current_timestamp, printed, rendered, outcome>>

\* lines 216-220: print the timestamp with the next caption, advance the cursor
PrintEmit ==
    /\ pc = "scan"
    /\ Len(track) < MaxTrack
    /\ current_timestamp < Len(timestamps)
    /\ \E end_in_seconds \in EndTimes :
          /\ end_in_seconds > timestamps[current_timestamp + 1]
          /\ track' = Append(track, end_in_seconds)
    /\ printed' = Append(printed, [timestamp |-> timestamps[current_timestamp + 1],
                                   caption |-> scan_idx + 1])
    /\ current_timestamp' = current_timestamp + 1
    /\ scan_idx' = scan_idx + 1
    /\ UNCHANGED <<pc, aggVars, storeVars, args, convVars, fs_log, raised, written_mode,
                   jobs, timestamps, rendered, outcome>>

\* line 210: the file has no more captions
PrintExhausted ==
    /\ pc = "scan"
    /\ pc' = "printed"
    /\ UNCHANGED <<aggVars, storeVars, args, convVars, fs_log, raised, queryVars>>

\* print_occurences_for_file_path returns: next item of line 251, or the end
PrintReturn ==
    /\ pc = "printed"
    /\ pc' = IF jobs = <<>> THEN "done" ELSE "print"
    /\ outcome' = IF jobs = <<>> THEN "rendered" ELSE outcome
    /\ UNCHANGED <<aggVars, storeVars, args, convVars, fs_log, raised, written_mode,
                   jobs, timestamps, current_timestamp, track, scan_idx, printed,
                   rendered>>

NextFind ==
    \/ FindArgsError
    \/ FindLoad
    \/ FindNotFound
    \/ FindFlatError
    \/ FindFlat
    \/ FindGroupedError
    \/ FindGrouped
    \/ PrintStart
    \/ PrintBreak
    \/ PrintSkipCaption
    \/ PrintEmit
    \/ PrintExhausted
    \/ PrintReturn

SpecFind == InitFind /\ [][NextFind]_vars

\* ------------------------------------------------------------------- claims
Keys(d) == Range(d.keys)

RECURSIVE SumFrequencies(_, _)
SumFrequencies(d, i) ==
    IF i > Len(d.keys) THEN 0
    ELSE d.val[d.keys[i]].frequency.num + SumFrequencies(d, i + 1)

NoDuplicates(s) == \A i \in 1..Len(s) : \A j \in 1..Len(s) : s[i] = s[j] => i = j

\* C1: a vocabulary built by analyze_subtitles, saved with save_vocabulary_json
\* and loaded with load_vocabulary_json has the same dictionary forms, the same
\* numeric frequency per form, and per form a duplicate-free occurrence sequence
\* whose elements are exactly the aggregated timestamps.
C1_JsonRoundTrip ==
    pc = "loaded" =>
        /\ Keys(loaded) = Keys(aggregated)
        /\ NoDuplicates(loaded.keys)
        /\ \A k \in Keys(loaded) :
              /\ loaded.val[k].frequency.kind = "int"
              /\ loaded.val[k].frequency.num = aggregated.val[k].frequency.num
              /\ loaded.val[k].occurences.kind = "list"
              /\ aggregated.val[k].occurences.kind = "set"
              /\ Range(loaded.val[k].occurences.items) = aggregated.val[k].occurences.elems
              /\ NoDuplicates(loaded.val[k].occurences.items)

C1_Witness ==
    /\ pc = "loaded"
    /\ Keys(loaded) = {"W1", "W2"}
    /\ loaded.val["W1"].frequency.num = 3
    /\ loaded.val["W1"].occurences.items = <<10, 9>>
    /\ Len(loaded.val["W2"].occurences.items) = 1

\* the tag starts with a prefix of the exclusion list
ExcludedTag(pos) == \E i \in 1..Len(POS_FILTER) : startswith(pos, POS_FILTER[i])

\* C9 as claimed: a morpheme whose part-of-speech tag starts with an exclusion
\* prefix never changes the vocabulary, with or without an override form.
C9_FilteredNeverCounts ==
    [][(pc = "analyze" /\ token_idx' = token_idx + 1 /\ ExcludedTag(a'.node.part_of_speech))
          => vocabulary' = vocabulary]_vars

\* C9 amended: a morpheme with no override form whose part-of-speech tag starts
\* with an exclusion prefix leaves the vocabulary unchanged, and so does moving
\* to the next caption (hence an empty caption); a morpheme with an override
\* form is counted under that form whatever its tag.
C9_FilteredWithoutOverride ==
    [][/\ (pc = "analyze" /\ caption_idx' = caption_idx + 1) => vocabulary' = vocabulary
       /\ (pc = "analyze" /\ token_idx' = token_idx + 1) =>
          /\ (a'.extra = None /\ ExcludedTag(a'.node.part_of_speech)) => vocabulary' = vocabulary
          /\ a'.extra # None =>
                /\ a'.extra[4] \in Keys(vocabulary')
                /\ SumFrequencies(vocabulary', 1) = SumFrequencies(vocabulary, 1) + 1
                /\ start \in vocabulary'.val[a'.extra[4]].occurences.elems]_vars

C9_Witness ==
    /\ pc = "analyze"
    /\ token_idx = 2
    /\ a = TokSuffix
    /\ Keys(vocabulary) = {"W1"}
    /\ vocabulary.val["W1"].frequency.num = 1

\* C10: during analyze_subtitles every entry has frequency >= number of distinct
\* timestamps >= 1, the frequencies sum to the number of retained morphemes, and
\* every timestamp of an entry is the start of a caption where the form was retained.
C10_AggregationInvariant ==
    pc \in {"analyze", "analyzed"} =>
        /\ \A k \in Keys(vocabulary) :
              /\ vocabulary.val[k].frequency.kind = "int"
              /\ vocabulary.val[k].occurences.kind = "set"
              /\ vocabulary.val[k].frequency.num >=
                    Cardinality(vocabulary.val[k].occurences.elems)
              /\ Cardinality(vocabulary.val[k].occurences.elems) >= 1
              /\ \A t \in vocabulary.val[k].occurences.elems : <<k, t>> \in seen
        /\ SumFrequencies(vocabulary, 1) = n_retained

C10_Witness ==
    /\ pc = "analyze"
    /\ Keys(vocabulary) = {"W1", "W2"}
    /\ vocabulary.val["W1"].frequency.num = 2
    /\ Cardinality(vocabulary.val["W1"].occurences.elems) = 1
    /\ n_retained = 3

\* occurences read back (list, or dict of lists) equal, as sets, to those aggregated
SameOccurences(back, orig) ==
    IF orig.kind = "set"
    THEN back.kind = "list" /\ Range(back.items) = orig.elems
    ELSE /\ back.kind = "dict"
         /\ Range(back.keys) = Range(orig.keys)
         /\ \A n \in Range(orig.keys) :
               /\ back.val[n].kind = "list"
               /\ Range(back.val[n].items) = orig.val[n].elems

\* C7: loading a file written by save_vocabulary_csv yields, for every form, the
\* frequency as the number that was saved (numeric, not text) and the occurences
\* as a structured value equal as sets to what was saved.
C7_CsvRoundTrip ==
    pc = "csv_loaded" =>
        /\ Keys(loaded) = Keys(aggregated)
        /\ \A k \in Keys(loaded) :
              /\ loaded.val[k].frequency.kind = "int"
              /\ loaded.val[k].frequency.num = aggregated.val[k].frequency.num
              /\ SameOccurences(loaded.val[k].occurences, aggregated.val[k].occurences)

\* What load_vocabulary_csv does return: the forms and the occurences as saved,
\* and the frequency as the text of the saved number.
C7_CsvRoundTripAsText ==
    pc = "csv_loaded" =>
        /\ Keys(loaded) = Keys(aggregated)
        /\ \A k \in Keys(loaded) :
              /\ loaded.val[k].frequency.kind = "str"
              /\ FromDigits(loaded.val[k].frequency.text) = aggregated.val[k].frequency.num
              /\ SameOccurences(loaded.val[k].occurences, aggregated.val[k].occurences)

RowsSorted ==
    /\ raised = "none"
    /\ Len(file.rows) = Cardinality(Keys(aggregated))
    /\ {file.rows[i].key : i \in 1..Len(file.rows)} = Keys(aggregated)
    /\ \A i \in 1..Len(file.rows) : \A j \in 1..Len(file.rows) :
          i < j => FromDigits(file.rows[i].frequency) >= FromDigits(file.rows[j].frequency)

\* C8: save_vocabulary_csv writes one row per form in non-increasing order of
\* numeric frequency, for an aggregated vocabulary (flat or combined) and for one
\* loaded from a tabular file and saved again.
C8_CsvRowsSorted == pc \in {"csv_saved", "csv_resaved"} => RowsSorted

\* The first save of an aggregated vocabulary is sorted.
C8_FirstSaveSorted == pc = "csv_saved" => RowsSorted

\* A combined vocabulary saved again after a load: whenever rows are written they
\* would have to be sorted (they are compared as text, so they are not).
C8_ResaveGroupedOrdered ==
    (pc = "csv_resaved" /\ raised = "none") => RowsSorted

\* A flat vocabulary saved again after a load would have to be written (line 55
\* raises AttributeError on its lists, so it is not).
C8_ResaveFlatWritten ==
    (pc = "csv_resaved" /\ Keys(aggregated) # {}
        /\ \A k \in Keys(aggregated) : aggregated.val[k].occurences.kind = "set")
    => raised = "none"

\* the frequency the form has in a file's own vocabulary (0 when absent)
OwnFrequency(p, k) ==
    IF k \in Keys(p.vocabulary) THEN p.vocabulary.val[k].frequency.num ELSE 0

RECURSIVE SumOwn(_, _)
SumOwn(k, i) ==
    IF i > Len(processed) THEN 0 ELSE OwnFrequency(processed[i], k) + SumOwn(k, i + 1)

CombinedMode == args.extract_vocabulary /\ truthy(args.single_vocabulary_file)

\* C2: in combined mode, after any sequence of processed files, every form of the
\* combined vocabulary has the sum of its per-file frequencies, and under each
\* processed file's base name exactly that file's own timestamps (and no entry
\* for a file where the form did not occur).
C2_CombinedMerge ==
    (pc = "loop" /\ CombinedMode) =>
        /\ Keys(common_vocabulary) =
              UNION {Keys(processed[i].vocabulary) : i \in 1..Len(processed)}
        /\ \A k \in Keys(common_vocabulary) :
              /\ common_vocabulary.val[k].frequency.num = SumOwn(k, 1)
              /\ \A i \in 1..Len(processed) :
                    LET base == splitext_root(processed[i].name)
                        occ == common_vocabulary.val[k].occurences
                    IN IF k \in Keys(processed[i].vocabulary)
                       THEN /\ base \in Range(occ.keys)
                            /\ occ.val[base] = processed[i].vocabulary.val[k].occurences
                       ELSE base \notin Range(occ.keys)

\* What C2 says holds as long as no two processed files share a base name.
C2_CombinedMergeDistinctNames ==
    (pc = "loop" /\ CombinedMode
        /\ \A i \in 1..Len(processed) : \A j \in 1..Len(processed) :
              splitext_root(processed[i].name) = splitext_root(processed[j].name) => i = j)
    => C2_CombinedMerge

C5_Condition ==
    /\ args.output_directory \in {None, <<>>}
    /\ \/ args.add_furigana
       \/ args.extract_vocabulary /\ args.single_vocabulary_file \in {None, <<>>}

\* C5: convert raises the configuration error exactly when output_directory is
\* missing and add_furigana is set or extract_vocabulary is set without
\* single_vocabulary_file, and it raises it before any filesystem action.
C5_ConfigError ==
    /\ pc # "convert" => (raised = "Output directory required" <=> C5_Condition)
    /\ raised = "Output directory required" =>
          /\ pc = "raised"
          /\ fs_log = <<>>
          /\ file = EmptyFile
          /\ processed = <<>>
          /\ listing = <<>>

C5_Witness ==
    /\ pc = "raised"
    /\ raised = "Output directory required"
    /\ args.extract_vocabulary
    /\ ~args.add_furigana
    /\ args.single_vocabulary_file = None
    /\ args.output_directory = None
    /\ directory # {}

Ascending(ts) == \A i \in 1..Len(ts) : \A j \in 1..Len(ts) : i < j => ts[i] <= ts[j]

\* the first caption after position from whose end time exceeds t (0 when none)
FirstEndingAfter(t, from) ==
    LET later == {i \in (from + 1)..Len(track) : track[i] > t}
    IN IF later = {} THEN 0 ELSE CHOOSE i \in later : \A j \in later : i <= j

\* the caption paired with the previous emitted timestamp (0 for the first)
PreviousCaption(k) == IF k = 1 THEN 0 ELSE printed[k - 1].caption

\* C3 as claimed: the timestamps are emitted in ascending order, each at most
\* once, each with the earliest caption of the whole track whose end time
\* exceeds it, and scanning stops once every timestamp has been emitted.
C3_EarliestCaptionOfTrack ==
    pc \in {"scan", "printed"} =>
        /\ \A k \in 1..Len(printed) : \A l \in 1..Len(printed) :
              k < l => printed[k].timestamp < printed[l].timestamp
        /\ \A k \in 1..Len(printed) :
              printed[k].caption = FirstEndingAfter(printed[k].timestamp, 0)
        /\ (pc = "printed" /\ current_timestamp = Len(timestamps) /\ printed # <<>>)
              => scan_idx = printed[Len(printed)].caption

\* C3 amended: the k-th line carries the k-th smallest timestamp of the list and
\* the earliest caption, among those after the caption of the previous line,
\* whose end time exceeds it (so a caption is used for at most one timestamp);
\* every caption examined since carries an end time not above the timestamp the
\* cursor is at; scanning stops once every timestamp has been emitted.
C3_EarliestCaptionAfterPrevious ==
    pc \in {"scan", "printed"} =>
        /\ Ascending(timestamps)
        /\ Len(printed) = current_timestamp
        /\ current_timestamp <= Len(timestamps)
        /\ scan_idx <= Len(track)
        /\ \A k \in 1..Len(printed) :
              /\ printed[k].timestamp = timestamps[k]
              /\ printed[k].caption = FirstEndingAfter(timestamps[k], PreviousCaption(k))
        /\ current_timestamp < Len(timestamps) =>
              \A i \in (PreviousCaption(Len(printed) + 1) + 1)..scan_idx :
                  track[i] <= timestamps[current_timestamp + 1]
        /\ (current_timestamp = Len(timestamps) /\ printed # <<>>)
              => scan_idx = printed[Len(printed)].caption
        /\ pc = "printed" =>
              current_timestamp = Len(timestamps) \/ scan_idx = Len(track)

C3_Witness ==
    /\ pc = "printed"
    /\ track = <<9, 10, 11>>
    /\ timestamps = <<9, 10>>
    /\ printed = <<[timestamp |-> 9, caption |-> 2], [timestamp |-> 10, caption |-> 3]>>

FindTerminal == pc \in {"done", "raised"}

EitherError == "Either the subtitles directory or subtitles file should be specified"

\* C4 as claimed: a query absent from the vocabulary gives the "not found"
\* report whatever subtitles_directory and subtitles_file are: no exception, no
\* subtitle file read.
C4_NotFoundWhateverArgs ==
    (FindTerminal /\ args.query \notin Keys(aggregated)) =>
        /\ outcome = "not found"
        /\ raised = "none"
        /\ rendered = <<>>

\* C4 amended: a query absent from the vocabulary gives the "not found" report,
\* with no exception and no subtitle file read, when subtitles_directory or
\* subtitles_file is given; when neither is given the call raises the
\* configuration error of line 230 before the vocabulary file is read.
C4_NotFoundWhenArgsGiven ==
    (FindTerminal /\ args.query \notin Keys(aggregated)) =>
        IF args.subtitles_directory \in {None, <<>>} /\ args.subtitles_file \in {None, <<>>}
        THEN /\ raised = EitherError
             /\ outcome = "none"
             /\ fs_log = <<>>
             /\ loaded = EmptyDict
        ELSE /\ outcome = "not found"
             /\ raised = "none"
             /\ rendered = <<>>
             /\ fs_log = << <<"read", args.vocabulary_file>> >>

C4_Witness ==
    /\ pc = "done"
    /\ outcome = "not found"
    /\ args.query = "W3"
    /\ Keys(loaded) = {"W1"}
    /\ args.subtitles_directory = None
    /\ args.subtitles_file = FileAVtt

\* C6: for a query present in the vocabulary the dispatch follows the shape of
\* its occurences alone: a flat sequence is rendered against subtitles_file, or
\* fails with a configuration error when subtitles_file is not given; a mapping
\* is rendered once per source name against directory + name + '.vtt', or fails
\* with a configuration error when subtitles_directory is not given; the shape
\* is flat exactly for a per-file vocabulary and a mapping exactly for a combined one.
C6_DispatchOnShape ==
    (FindTerminal /\ args.query \in Keys(aggregated)) =>
        IF args.query \notin Keys(loaded)
        THEN /\ raised = EitherError
             /\ args.subtitles_directory \in {None, <<>>}
             /\ args.subtitles_file \in {None, <<>>}
             /\ rendered = <<>>
        ELSE LET occ == loaded.val[args.query].occurences
             IN /\ occ.kind \in {"list", "dict"}
                /\ occ.kind = "list" <=> written_mode = "per-file"
                /\ occ.kind = "dict" <=> written_mode = "combined"
                /\ occ.kind = "list" =>
                      IF args.subtitles_file \in {None, <<>>}
                      THEN /\ raised = "vocabulary was generated for a single file which was not specified"
                           /\ rendered = <<>>
                      ELSE /\ raised = "none"
                           /\ outcome = "rendered"
                           /\ rendered = <<args.subtitles_file>>
                /\ occ.kind = "dict" =>
                      IF args.subtitles_directory \in {None, <<>>}
                      THEN /\ raised = "vocabulary was generated for a directory which was not specified"
                           /\ rendered = <<>>
                      ELSE /\ raised = "none"
                           /\ outcome = "rendered"
                           /\ rendered =
                                 [i \in 1..Len(occ.keys) |->
                                    args.subtitles_directory \o <<"/">> \o occ.keys[i]
                                        \o <<".", "v", "t", "t">>]

C6_Witness ==
    /\ pc = "done"
    /\ written_mode = "combined"
    /\ args.query = "W1"
    /\ args.subtitles_file = None
    /\ rendered = << <<"d", "/", "a", ".", "v", "t", "t">>,
                     <<"d", "/", "b", ".", "v", "t", "t">> >>

====
